---- MODULE Spec2Model ----
(***************************************************************************)
(* Financial-Document-Organizer: the scan cycle of ScannerService          *)
(* (src/src/scanner/scanner.service.ts) over its collaborators             *)
(* GmailService, DriveService, SheetsService and the two TypeORM           *)
(* repositories (ProcessedDocument, ScanLog).                              *)
(*                                                                         *)
(* One action is one stretch of code between two awaits: the completion    *)
(* of the awaited call (with its outcome, success or rejection) together   *)
(* with all the synchronous code that follows it up to the next await.     *)
(* Error messages are sequences of string tokens, so that wrapping and     *)
(* prefixing are visible.                                                  *)
(*                                                                         *)
(* The second part is the credential lifecycle of AuthService              *)
(* (src/src/auth/auth.service.ts) over the user_tokens table and the one   *)
(* OAuth2 client the service holds, with several calls in flight at once.  *)
(* The third part applies the pure helper methods (isDocumentFile,         *)
(* formatFileSize, generateStructuredFilename) to inputs of their own.     *)
(* The scan cycle (Spec), the credential lifecycle (AuthSpec) and the      *)
(* helper methods (HelperSpec) are three specifications over the same      *)
(* variables: each leaves the other parts of the state alone.              *)
(***************************************************************************)
EXTENDS Integers, Sequences, FiniteSets, TLC

(* ---------------- bounds of the model ---------------- *)
NumEmails == 2
MaxAttachments == 2
MaxRuns == 2
MaxFaults == 2
NumCallers == 2
MaxCalls == 2
MaxTime == 2
MaxAuthFaults == 1
MaxNameLength == 3
MaxExponent == 4

(* ---------------- program constants ---------------- *)
MaxResults == 50
MaxSenderName == 20
\* null and undefined of a token or of an expiry; real values are positive
Null == 0

VARIABLES
    mailbox,              \* email id -> ordered attachment filenames' extensions
    labelled,             \* emails carrying the label processed-financial-docs
    documents,            \* rows of processed_documents
    scanLogs,             \* rows of scan_logs, in insertion order
    archive,              \* files created in the Drive folder, in order: <<email, attachment index>>
    ledger,               \* rows appended to the spreadsheet, in order: <<email, attachment index>>
    runs,                 \* number of scanAndProcess invocations started so far
    pc,                   \* position of the running invocation ("idle": none running)
    outcome,              \* how the latest invocation ended
    logId,                \* row of scan_logs the invocation's scanLog entity is bound to (0: none)
    scanLog,              \* the in-memory scanLog entity
    result,               \* the in-memory ProcessingResult
    err,                  \* error.message caught by the top-level handler
    processedEmailIds,    \* local of scanAndProcess
    messages,             \* local of scanAndProcess
    unprocessedMessages,  \* local of scanAndProcess
    idx,                  \* position of the for-loop over unprocessedMessages
    att,                  \* position of the for-loop over emailDetails.attachments
    processedDocs,        \* local of processEmail
    calls,                \* collaborator and store calls made on emails by the running invocation
    logWrites,            \* writes of the invocation's scan_logs row accepted after its insertion
    rejected,             \* the calls of the running invocation that were rejected
    faults                \* collaborator and store calls rejected so far, over all invocations

VARIABLES
    userTokens,           \* rows of user_tokens
    client,               \* credentials held by AuthService.oauth2Client
    now,                  \* Date.now()
    call,                 \* caller -> its running or latest call of an AuthService method
    started,              \* number of AuthService calls made so far
    ended                 \* the AuthService call that ended last: its method and how it ended

scanner == <<mailbox, labelled, documents, scanLogs, archive, ledger, runs, pc, outcome,
             logId, scanLog, result, err, processedEmailIds, messages, unprocessedMessages,
             idx, att, processedDocs, calls, logWrites, rejected>>

auth == <<userTokens, client, now, call, started, ended>>

VARIABLES
    arg,                  \* the helper method applied and its arguments
    out                   \* what the helper method returned

helper == <<arg, out>>

vars == <<mailbox, labelled, documents, scanLogs, archive, ledger, runs, pc, outcome,
          logId, scanLog, result, err, processedEmailIds, messages, unprocessedMessages,
          idx, att, processedDocs, calls, logWrites, rejected, faults,
          userTokens, client, now, call, started, ended, arg, out>>

(* ---------------- helpers ---------------- *)
Min(a, b) == IF a <= b THEN a ELSE b

RECURSIVE SeqsUpTo(_, _)
SeqsUpTo(S, n) ==
    IF n = 0 THEN {<<>>}
    ELSE LET shorter == SeqsUpTo(S, n - 1)
         IN shorter \cup {Append(s, x) : s \in {t \in shorter : Len(t) = n - 1}, x \in S}

RECURSIVE FilterSeq(_, _)
FilterSeq(s, keep) ==
    IF s = <<>> THEN <<>>
    ELSE IF Head(s) \in keep THEN <<Head(s)>> \o FilterSeq(Tail(s), keep)
         ELSE FilterSeq(Tail(s), keep)

RECURSIVE Ascending(_)
Ascending(S) ==
    IF S = {} THEN <<>>
    ELSE LET m == CHOOSE x \in S : \A y \in S : x <= y
         IN <<m>> \o Ascending(S \ {m})

Range(s) == {s[i] : i \in 1..Len(s)}

(* ---------------- attachment filenames ---------------- *)
\* A filename is a sequence of tokens; the token "." is the dot character.
Filenames == { <<"a", ".", "pdf">>, <<"b", ".", "zip">> }
AttachmentLists == SeqsUpTo(Filenames, MaxAttachments)

\* The lower-case mapping of one token. It is not always one token long: the capital
\* I with dot above (U+0130) maps to two code units, i and the combining dot above
\* (U+0307).
LowerCase(token) ==
    CASE token = "PDF" -> <<"pdf">>
      [] token = "ZIP" -> <<"zip">>
      [] token = "JPG" -> <<"jpg">>
      [] token = "Invoice" -> <<"invoice">>
      [] token = "INV" -> <<"inv">>
      [] token = "U+0130" -> <<"i", "U+0307">>
      [] OTHER -> <<token>>

\* String.prototype.toLowerCase
RECURSIVE toLowerCase(_)
toLowerCase(s) == IF s = <<>> THEN <<>> ELSE LowerCase(Head(s)) \o toLowerCase(Tail(s))

\* String.prototype.lastIndexOf('.'), 0-based, -1 when there is no dot
lastIndexOf(filename) ==
    LET dots == {i \in 1..Len(filename) : filename[i] = "."}
    IN IF dots = {} THEN -1 ELSE (CHOOSE i \in dots : \A j \in dots : j <= i) - 1

\* String.prototype.substring(start): a negative start is taken as 0
substring(s, start) ==
    LET from == IF start < 0 THEN 0 ELSE start
    IN SubSeq(s, from + 1, Len(s))

documentExtensions ==
    { <<".", "pdf">>, <<".", "doc">>, <<".", "docx">>, <<".", "png">>,
      <<".", "jpg">>, <<".", "jpeg">>, <<".", "gif">>, <<".", "tiff">> }

\* lines 232-235: the index of the last dot is taken in filename and applied to the
\* lower-cased filename
isDocumentFile(filename) ==
    LET extension == substring(toLowerCase(filename), lastIndexOf(filename))
    IN extension \in documentExtensions

(* ---------------- ScannerService.formatFileSize ---------------- *)
\* A byte count is mantissa * 1024^exponent, so that counts beyond the range of the
\* model checker's integers can be written; the division of line 246 lowers the
\* exponent, below zero for a fraction.
Bytes(m, k) == [mantissa |-> m, exponent |-> k]

RECURSIVE Power1024(_)
Power1024(n) == IF n = 0 THEN 1 ELSE 1024 * Power1024(n - 1)

\* size >= 1024, line 245
AtLeast1024(size) ==
    IF size.exponent >= 1 THEN size.mantissa >= 1
    ELSE IF 1 - size.exponent > 2 THEN FALSE
    ELSE size.mantissa >= Power1024(1 - size.exponent)

units == <<"B", "KB", "MB", "GB">>

\* the while loop of lines 245-248; unitIndex counts from 0
RECURSIVE Scaled(_, _)
Scaled(size, unitIndex) ==
    IF AtLeast1024(size) /\ unitIndex <= Len(units) - 1
    THEN Scaled(Bytes(size.mantissa, size.exponent - 1), unitIndex + 1)
    ELSE [size |-> size, unitIndex |-> unitIndex]

\* Math.round(size * 100), line 250
Hundredths(size) ==
    IF size.exponent >= 0 THEN size.mantissa * Power1024(size.exponent) * 100
    ELSE (2 * size.mantissa * 100 + Power1024(0 - size.exponent))
            \div (2 * Power1024(0 - size.exponent))

\* the text of the number h / 100 in a template literal: 150 gives 1.5, 100 gives 1
NumberText(h) ==
    LET whole == ToString(h \div 100)
        cents == h % 100
    IN IF cents = 0 THEN <<whole>>
       ELSE IF cents % 10 = 0 THEN <<whole, ".", ToString(cents \div 10)>>
       ELSE IF cents < 10 THEN <<whole, ".", "0", ToString(cents)>>
       ELSE <<whole, ".", ToString(cents)>>

\* units[unitIndex] in a template literal: undefined beyond the end of the array
UnitText(unitIndex) ==
    IF unitIndex + 1 \in DOMAIN units THEN units[unitIndex + 1] ELSE "undefined"

\* lines 238-251
formatFileSize(sizeInBytes) ==
    IF sizeInBytes.mantissa = 0 THEN <<"Unknown">>
    ELSE LET end == Scaled(sizeInBytes, 0)
         IN NumberText(Hundredths(end.size)) \o <<" ", UnitText(end.unitIndex)>>

(* ---------------- error messages ---------------- *)
StoreError == <<"query failed">>
DriveFolderError == <<"Failed to manage Drive folder">>
SpreadsheetError == <<"Failed to manage spreadsheet">>
SearchError == <<"Gmail search failed">>
DetailsError == <<"Failed to get email details">>
DownloadError == <<"Failed to download attachment">>
UploadError == <<"Failed to upload file">>
LogDocumentError == <<"Failed to log document">>
ReferenceError == <<"structuredFilename is not defined">>

\* A wrapper message without the filename of the attachment.
AttachmentErrorUnnamed(filename, m) == <<"Failed to process attachment", ":">> \o m

AttachmentError(filename, m) == <<"Failed to process attachment">> \o filename \o <<":">> \o m
EmailError(id, m) == <<"Email", ToString(id), ":">> \o m
ScanFailedError(m) == <<"Scan process failed", ":">> \o m

(* ---------------- records ---------------- *)
NullDetails == [kind |-> "null", lines |-> <<>>]
TextDetails(m) == [kind |-> "text", lines |-> <<m>>]
JsonDetails(errors) == [kind |-> "json", lines |-> errors]

NewScanLog ==
    [status |-> "started", emailsProcessed |-> 0, documentsProcessed |-> 0,
     errorsCount |-> 0, errorDetails |-> NullDetails, completedAt |-> "null"]

EmptyResult == [processed |-> 0, errors |-> <<>>, details |-> <<>>]

NoOutcome == [kind |-> "none", msg |-> <<>>, value |-> EmptyResult]
Returned(res) == [kind |-> "return", msg |-> <<>>, value |-> res]
Thrown(m) == [kind |-> "throw", msg |-> m, value |-> EmptyResult]

\* Lines 63-64 without the assignment of the status.
MarkEmptyUnfinished(log) == [log EXCEPT !.completedAt = "set"]

\* lines 63-64
MarkEmpty(log) == [log EXCEPT !.status = "completed", !.completedAt = "set"]

\* Lines 90-96 without the assignment of errorsCount (line 93).
MarkCompletedNoErrorsCount(log, res) ==
    [log EXCEPT !.status = "completed",
                !.emailsProcessed = res.processed,
                !.documentsProcessed = Len(res.details),
                !.errorDetails = IF Len(res.errors) > 0 THEN JsonDetails(res.errors)
                                 ELSE NullDetails,
                !.completedAt = "set"]

\* lines 90-96
MarkCompleted(log, res) ==
    [log EXCEPT !.status = "completed",
                !.emailsProcessed = res.processed,
                !.documentsProcessed = Len(res.details),
                !.errorsCount = Len(res.errors),
                !.errorDetails = IF Len(res.errors) > 0 THEN JsonDetails(res.errors)
                                 ELSE NullDetails,
                !.completedAt = "set"]

\* Lines 104-106 without the assignment of errorDetails.
MarkFailedNoDetail(log, m) == [log EXCEPT !.status = "failed", !.completedAt = "set"]

\* Lines 104-106 counting the fatal error as an error of the run.
MarkFailedCountsError(log, m) ==
    [log EXCEPT !.status = "failed", !.errorDetails = TextDetails(m),
                !.errorsCount = log.errorsCount + 1, !.completedAt = "set"]

\* lines 104-106
MarkFailed(log, m) ==
    [log EXCEPT !.status = "failed", !.errorDetails = TextDetails(m), !.completedAt = "set"]

\* A query of lines 214-216 that finds no row.
getProcessedEmailIdsNone(docs) == {}

\* lines 213-218
getProcessedEmailIds(docs) == {docs[i].emailId : i \in 1..Len(docs)}

\* The filter of lines 54-56 with its test left out.
UnprocessedUnfiltered(msgs, ids) == msgs

\* lines 54-56
Unprocessed(msgs, ids) == FilterSeq(msgs, Range(msgs) \ ids)

\* gmail.users.messages.list with q "... -label:processed-financial-docs", maxResults 50
searchEmails(box, labels) ==
    LET hits == Ascending({e \in DOMAIN box : e \notin labels})
    IN SubSeq(hits, 1, Min(MaxResults, Len(hits)))

\* lines 79-80
RecordSuccess(res, docs) ==
    [res EXCEPT !.processed = res.processed + 1, !.details = res.details \o docs]

\* lines 84-86
RecordError(res, id, m) == [res EXCEPT !.errors = Append(res.errors, EmailError(id, m))]

(* ---------------- state ---------------- *)
RECURSIVE SumLen(_, _)
SumLen(box, n) == IF n = 0 THEN 0 ELSE Len(box[n]) + SumLen(box, n - 1)

\* The mailbox holds the emails 1..n that match the search query, n <= NumEmails.
Mailboxes ==
    UNION {{box \in [1..n -> AttachmentLists] : SumLen(box, n) <= MaxAttachments} :
           n \in 0..NumEmails}

(* ---------------- AuthService: records ---------------- *)
Callers == 1..NumCallers
defaultUserId == "default_user"

\* google-auth-library Credentials
Credentials(access, refresh, expiry) ==
    [access_token |-> access, refresh_token |-> refresh, scope |-> "scope",
     token_type |-> "Bearer", expiry_date |-> expiry]

\* the client of lines 22-26, before any setCredentials
NoCredentials ==
    [access_token |-> Null, refresh_token |-> Null, scope |-> "", token_type |-> "",
     expiry_date |-> Null]

\* UserToken entity (user-token.entity.ts)
UserToken(id, tok) ==
    [id |-> id, userId |-> defaultUserId, accessToken |-> tok.access_token,
     refreshToken |-> tok.refresh_token, scope |-> tok.scope,
     tokenType |-> tok.token_type, expiryDate |-> tok.expiry_date]

NoReturn == [kind |-> "none", msg |-> ""]
ReturnedClient == [kind |-> "client", msg |-> ""]
ReturnedTokens == [kind |-> "tokens", msg |-> ""]
ReturnedVoid == [kind |-> "void", msg |-> ""]
Failed(m) == [kind |-> "throw", msg |-> m]

\* the call that ended last
\* method: the method called; at: the await the call ended after; ret: how it ended
NoneEnded == [method |-> "none", at |-> "none", ret |-> NoReturn]
LastCall(m, at, r) == [method |-> m, at |-> at, ret |-> r]

\* A caller with no call in flight; the locals of a call are gone when it ends.
\*   phase      the await the call is suspended at
\*   method     the AuthService method that was called
\*   number     the number of the call among the calls made
\*   userToken  local of getAuthenticated (empty: null)
\*   tokens     token set the exchange of the call was answered with
\*   existing   local userToken of saveTokens (empty: null)
\*   settled    whether the store accepted the call that is awaited
\*   exchanges  refresh exchanges issued by the call
\*   before     user_tokens when the call was made
\*   replaced   user_tokens just before the save of the call
\*   written    row written by the save of the call (empty: none)
\*   touched    whether another call changed user_tokens while this one was running
Idle ==
    [phase |-> "idle", method |-> "none", number |-> 0, userToken |-> {},
     tokens |-> NoCredentials, existing |-> {}, settled |-> TRUE, exchanges |-> 0,
     before |-> {}, replaced |-> {}, written |-> {}, touched |-> FALSE]

\* the credential part of the state while the scan cycle is studied on its own
NoArgument == [fn |-> "none"]
NoOutput == [fn |-> "none"]
HelperQuiet ==
    /\ arg = NoArgument
    /\ out = NoOutput

AuthQuiet ==
    /\ userTokens = {}
    /\ client = NoCredentials
    /\ now = 1
    /\ started = 0
    /\ ended = NoneEnded
    /\ call = [p \in Callers |-> Idle]

Init ==
    /\ mailbox \in Mailboxes
    /\ labelled = {}
    /\ documents = <<>>
    /\ scanLogs = <<>>
    /\ archive = <<>>
    /\ ledger = <<>>
    /\ runs = 0
    /\ pc = "idle"
    /\ outcome = NoOutcome
    /\ logId = 0
    /\ scanLog = NewScanLog
    /\ result = EmptyResult
    /\ err = <<>>
    /\ processedEmailIds = {}
    /\ messages = <<>>
    /\ unprocessedMessages = <<>>
    /\ idx = 0
    /\ att = 0
    /\ processedDocs = <<>>
    /\ calls = {}
    /\ logWrites = 0
    /\ rejected = {}
    /\ faults = 0
    /\ AuthQuiet
    /\ HelperQuiet

world == <<mailbox, labelled>>
stores == <<documents, archive, ledger>>
candidates == <<processedEmailIds, messages, unprocessedMessages>>

message == unprocessedMessages[idx]
attachment == mailbox[message][att]

Called(op, e) == calls' = calls \cup {<<op, e>>}

\* The outcomes of an awaited call: TRUE, it resolves; FALSE, it rejects.
Outcomes == IF faults < MaxFaults THEN BOOLEAN ELSE {TRUE}
Settled(op, e, ok) ==
    /\ faults' = IF ok THEN faults ELSE faults + 1
    /\ rejected' = IF ok THEN rejected ELSE rejected \cup {<<op, e>>}

(* ---------------- scanAndProcess: lines 24-38 ---------------- *)
\* scanLogRepository.create + save (lines 25-32): an insert the store may reject, in
\* which case the rejection leaves scanAndProcess before the try block is entered.
StartScan ==
    /\ pc = "idle"
    /\ runs < MaxRuns
    /\ runs' = runs + 1
    /\ scanLog' = NewScanLog
    /\ result' = EmptyResult
    /\ err' = <<>>
    /\ processedEmailIds' = {}
    /\ messages' = <<>>
    /\ unprocessedMessages' = <<>>
    /\ idx' = 0
    /\ att' = 0
    /\ processedDocs' = <<>>
    /\ calls' = {}
    /\ logWrites' = 0
    /\ \E saved \in Outcomes :
          /\ faults' = IF saved THEN faults ELSE faults + 1
          /\ rejected' = IF saved THEN {} ELSE {<<"insertLog", 0>>}
          /\ IF saved
             THEN /\ scanLogs' = Append(scanLogs, NewScanLog)
                  /\ logId' = Len(scanLogs) + 1
                  /\ pc' = "setup"
                  /\ outcome' = NoOutcome
             ELSE /\ scanLogs' = scanLogs
                  /\ logId' = 0
                  /\ pc' = "idle"
                  /\ outcome' = Thrown(StoreError)
    /\ UNCHANGED <<world, stores>>
    /\ UNCHANGED <<auth, helper>>

\* An exception reaches the catch of lines 103-106: the entity is marked failed
\* and its save (line 107) is awaited.
Caught(m) ==
    /\ pc' = "handler"
    /\ err' = m
    /\ scanLog' = MarkFailed(scanLog, m)

(* ---------------- lines 43-46 ---------------- *)
\* A setup whose rejection is swallowed: the run goes on to line 52.
SetupSwallowsFailure ==
    /\ pc = "setup"
    /\ \E r \in IF faults < MaxFaults THEN {"ok", "folder", "spreadsheet"} ELSE {"ok"} :
          Settled("setup", 0, r = "ok")
    /\ pc' = "dedup"
    /\ UNCHANGED <<world, stores, scanLogs, runs, outcome, logId, result, candidates,
                   idx, att, processedDocs, calls, logWrites, err, scanLog>>
    /\ UNCHANGED <<auth, helper>>

\* Promise.all of ensureFolderExists and ensureSpreadsheetExists: it resolves when
\* both resolve and rejects with the rejection that comes first.
Setup ==
    /\ pc = "setup"
    /\ \E r \in IF faults < MaxFaults THEN {"ok", "folder", "spreadsheet"} ELSE {"ok"} :
          /\ Settled("setup", 0, r = "ok")
          /\ CASE r = "ok" -> pc' = "dedup" /\ UNCHANGED <<err, scanLog>>
               [] r = "folder" -> Caught(DriveFolderError)
               [] r = "spreadsheet" -> Caught(SpreadsheetError)
    /\ UNCHANGED <<world, stores, scanLogs, runs, outcome, logId, result, candidates,
                   idx, att, processedDocs, calls, logWrites>>
    /\ UNCHANGED <<auth, helper>>

(* ---------------- line 52 ---------------- *)
LoadProcessedIds ==
    /\ pc = "dedup"
    /\ \E found \in Outcomes :
          /\ Settled("find", 0, found)
          /\ IF found
             THEN /\ processedEmailIds' = getProcessedEmailIds(documents)
                  /\ pc' = "search"
                  /\ UNCHANGED <<err, scanLog>>
             ELSE /\ Caught(StoreError)
                  /\ UNCHANGED processedEmailIds
    /\ UNCHANGED <<world, stores, scanLogs, runs, outcome, logId, result, messages,
                   unprocessedMessages, idx, att, processedDocs, calls, logWrites>>
    /\ UNCHANGED <<auth, helper>>

(* ---------------- lines 53-69 ---------------- *)
Search ==
    /\ pc = "search"
    /\ Called("search", 0)
    /\ \E listed \in Outcomes :
          /\ Settled("search", 0, listed)
          /\ IF listed
             THEN LET msgs == searchEmails(mailbox, labelled)
                      todo == Unprocessed(msgs, processedEmailIds)
                  IN /\ messages' = msgs
                     /\ unprocessedMessages' = todo
                     /\ err' = err
                     /\ IF Len(todo) = 0
                        THEN /\ scanLog' = MarkEmpty(scanLog)
                             /\ pc' = "saveEmpty"
                             /\ idx' = idx
                        ELSE /\ scanLog' = scanLog
                             /\ pc' = "details"
                             /\ idx' = 1
             ELSE /\ Caught(SearchError)
                  /\ UNCHANGED <<messages, unprocessedMessages, idx>>
    /\ UNCHANGED <<world, stores, scanLogs, runs, outcome, logId, result,
                   processedEmailIds, att, processedDocs, logWrites>>
    /\ UNCHANGED <<auth, helper>>

\* the save of line 65 and the return of line 68
SaveEmpty ==
    /\ pc = "saveEmpty"
    /\ \E saved \in Outcomes :
          /\ Settled("saveLog", 0, saved)
          /\ IF saved
             THEN /\ scanLogs' = [scanLogs EXCEPT ![logId] = scanLog]
                  /\ logWrites' = logWrites + 1
                  /\ outcome' = Returned(result)
                  /\ pc' = "idle"
                  /\ UNCHANGED <<err, scanLog>>
             ELSE /\ Caught(StoreError)
                  /\ UNCHANGED <<scanLogs, logWrites, outcome>>
    /\ UNCHANGED <<world, stores, runs, logId, result, candidates, idx, att,
                   processedDocs, calls>>
    /\ UNCHANGED <<auth, helper>>

(* ---------------- the for-loop of lines 71-88 ---------------- *)
\* The loop moves on to the next message, or leaves for lines 90-97.
Advance(res) ==
    /\ result' = res
    /\ att' = 0
    /\ processedDocs' = <<>>
    /\ err' = err
    /\ IF idx < Len(unprocessedMessages)
       THEN /\ idx' = idx + 1
            /\ pc' = "details"
            /\ scanLog' = scanLog
       ELSE /\ idx' = idx
            /\ pc' = "saveFinal"
            /\ scanLog' = MarkCompleted(scanLog, res)

\* A loop without the try/catch of lines 72-87: the email's error reaches the
\* top-level handler.
EmailFailedAborts(m) ==
    /\ Caught(m)
    /\ UNCHANGED <<result, idx, att, processedDocs>>

\* processEmail threw: the catch of lines 83-87
EmailFailed(m) == Advance(RecordError(result, message, m))

\* processEmail returned docs: lines 79-82
EmailSucceeded(docs) == Advance(RecordSuccess(result, docs))

(* ---------------- processEmail: lines 114-211 ---------------- *)
\* The for-loop of line 131 from attachment `from` on, with processedDocs = docs:
\* non-document files are skipped (lines 133-136) up to the next document file,
\* whose download is awaited; after the last attachment, lines 207-210.
Attachments(from, docs) ==
    LET files == mailbox[message]
        rest == {j \in from..Len(files) : isDocumentFile(files[j])}
    IN IF rest # {}
       THEN /\ att' = CHOOSE j \in rest : \A k \in rest : j <= k
            /\ processedDocs' = docs
            /\ pc' = "download"
            /\ UNCHANGED <<result, idx, scanLog, err>>
       ELSE IF Len(docs) > 0
            THEN /\ processedDocs' = docs
                 /\ pc' = "label"
                 /\ UNCHANGED <<result, idx, att, scanLog, err>>
            ELSE EmailSucceeded(docs)

\* lines 187-195: the object literal reads structuredFilename, an identifier that is
\* declared nowhere (the local of line 143 is structuredFileName); the read throws a
\* ReferenceError, which the catch of lines 196-204 wraps and rethrows.
PushSummary == EmailFailed(AttachmentError(attachment, ReferenceError))

(* ---------------- DriveService.generateStructuredFilename ---------------- *)
\* A string is a sequence of tokens; a JavaScript value is a string or undefined.
Str(s) == [type |-> "string", text |-> s]
Undefined == [type |-> "undefined", text |-> <<>>]
\* the conversion of a value inside a template literal
String(v) == IF v.type = "undefined" THEN <<"undefined">> ELSE v.text

\* the character class [a-zA-Z0-9] over the characters of the model's sender addresses
Alphanumeric == {"a", "b", "A", "1"}
\* the runs of digits of the model's subjects and the number of digits of each
Digits == {"7", "42", "2024"}
DigitCount(t) == CASE t = "7" -> 1 [] t = "42" -> 2 [] t = "2024" -> 4 [] OTHER -> 0
\* the character class [\s#]
Separators == {" ", "#"}
\* Math.random().toString(36).substr(2, 6).toUpperCase()
RandomTokens == {"K3X9QZ", "7FB2MA"}

\* senderEmail.split('@')[0]
BeforeAt(s) ==
    LET ats == {i \in 1..Len(s) : s[i] = "@"}
    IN IF ats = {} THEN s
       ELSE SubSeq(s, 1, (CHOOSE i \in ats : \A j \in ats : i <= j) - 1)

\* lines 420-423
senderName(senderEmail) ==
    LET kept == FilterSeq(BeforeAt(senderEmail), Alphanumeric)
    IN SubSeq(kept, 1, Min(MaxSenderName, Len(kept)))

\* the digits matched by (\d+) from position j on: the whole run of digits
DigitRun(s, j) ==
    LET ends == {k \in j..Len(s) : \A l \in j..k : s[l] \in Digits}
    IN SubSeq(s, j, CHOOSE k \in ends : \A l \in ends : l <= k)

RECURSIVE CountDigits(_)
CountDigits(run) == IF run = <<>> THEN 0 ELSE DigitCount(Head(run)) + CountDigits(Tail(run))

\* the first position after i that holds no separator
AfterSeparators(s, i) ==
    LET stops == {j \in (i + 1)..(Len(s) + 1) : j = Len(s) + 1 \/ s[j] \notin Separators}
    IN CHOOSE j \in stops : \A k \in stops : j <= k

\* the positions at which /word[\s#]*(\d+)/i matches
KeywordMatches(s, word) ==
    {i \in 1..Len(s) :
        /\ toLowerCase(<<s[i]>>) = <<word>>
        /\ AfterSeparators(s, i) <= Len(s)
        /\ s[AfterSeparators(s, i)] \in Digits}
\* the positions at which /#(\d+)/ matches
HashMatches(s) == {i \in 1..(Len(s) - 1) : s[i] = "#" /\ s[i + 1] \in Digits}
\* the positions at which /(\d{4,})/ matches first: the starts of runs of four digits or more
LongRuns(s) ==
    {j \in 1..Len(s) :
        /\ s[j] \in Digits
        /\ (j = 1 \/ s[j - 1] \notin Digits)
        /\ CountDigits(DigitRun(s, j)) >= 4}
First(S) == CHOOSE i \in S : \A j \in S : i <= j

\* gmail.service.ts lines 446-464; random is the value of the Math.random() call
extractInvoiceNumber(subject, random) ==
    LET Keyword(word) == DigitRun(subject, AfterSeparators(subject, First(KeywordMatches(subject, word))))
    IN <<"INV">> \o
       (IF KeywordMatches(subject, "invoice") # {} THEN Keyword("invoice")
        ELSE IF KeywordMatches(subject, "inv") # {} THEN Keyword("inv")
        ELSE IF KeywordMatches(subject, "bill") # {} THEN Keyword("bill")
        ELSE IF KeywordMatches(subject, "receipt") # {} THEN Keyword("receipt")
        ELSE IF HashMatches(subject) # {} THEN DigitRun(subject, First(HashMatches(subject)) + 1)
        ELSE IF LongRuns(subject) # {} THEN DigitRun(subject, First(LongRuns(subject)))
        ELSE <<random>>)

\* new Date(date).toISOString().split('T')[0], lines 427-428: the day in UTC of a
\* parseable Date header; toISOString throws a RangeError on an invalid date
InvalidDate == "Invalid Date"
formattedDate(date) ==
    CASE date = "Mon, 15 Jan 2024 10:00:00 +0000" -> "2024-01-15"
      [] date = "Mon, 15 Jan 2024 23:30:00 -0500" -> "2024-01-16"
      [] OTHER -> InvalidDate

\* new Date().toISOString().split('T')[0], line 441
timestamp == "today"

\* originalFilename.split('.').pop() || 'pdf', line 430: the text after the last
\* dot, the whole name when it has no dot, pdf when that text is empty
extensionOf(name) ==
    LET last == SubSeq(name, lastIndexOf(name) + 2, Len(name))
    IN IF last = <<>> THEN <<"pdf">> ELSE last

\* lines 413-444: the try block throws when the date is invalid (line 428) or when
\* originalFilename is undefined (line 430); the catch returns the fallback name
generateStructuredFilename(senderEmail, subject, date, originalFilename, random) ==
    IF formattedDate(date) = InvalidDate \/ originalFilename.type = "undefined"
    THEN <<timestamp, "_">> \o String(originalFilename)
    ELSE senderName(senderEmail) \o <<"_">> \o extractInvoiceNumber(subject, random)
            \o <<"_", formattedDate(date), ".">> \o extensionOf(originalFilename.text)

\* The headers of the emails of the mailbox (gmail.service.ts lines 79-85): every
\* email comes from the same sender, with the same invoice number and date.
emailDetails ==
    [from |-> <<"a", ".", "b", "@", "A">>,
     subject |-> <<"Invoice", " ", "42">>,
     date |-> "Mon, 15 Jan 2024 10:00:00 +0000"]

\* lines 143-148: the fourth argument is emailDetails.filename, a property that
\* EmailDetails does not have (the filename is attachment.filename): undefined
structuredFileName(random) ==
    generateStructuredFilename(emailDetails.from, emailDetails.subject, emailDetails.date,
                               Undefined, random)

driveFileId == Len(archive)
rowNumber == Len(ledger) + 1

\* lines 166-183; att is the position of the attachment in the email (bookkeeping),
\* processedAt (@CreateDateColumn) is the number of the invocation that inserts the row
NewDocument(random) ==
    [emailId |-> message, messageId |-> message, att |-> att,
     fileName |-> structuredFileName(random), originalFileName |-> attachment,
     driveFileId |-> driveFileId, spreadsheetRow |-> rowNumber, status |-> "completed",
     processedAt |-> runs]

\* line 121
GetEmailDetails ==
    /\ pc = "details"
    /\ Called("details", message)
    /\ \E fetched \in Outcomes :
          /\ Settled("details", message, fetched)
          /\ IF fetched THEN Attachments(1, <<>>) ELSE EmailFailed(DetailsError)
    /\ UNCHANGED <<world, stores, scanLogs, runs, outcome, logId, candidates, logWrites>>
    /\ UNCHANGED <<auth, helper>>

\* lines 138-141
Download ==
    /\ pc = "download"
    /\ Called("download", message)
    /\ \E fetched \in Outcomes :
          /\ Settled("download", message, fetched)
          /\ IF fetched
             THEN /\ pc' = "upload"
                  /\ UNCHANGED <<result, idx, att, processedDocs, scanLog, err>>
             ELSE EmailFailed(AttachmentError(attachment, DownloadError))
    /\ UNCHANGED <<world, stores, scanLogs, runs, outcome, logId, candidates, logWrites>>
    /\ UNCHANGED <<auth, helper>>

\* lines 143-155
Upload ==
    /\ pc = "upload"
    /\ Called("upload", message)
    /\ \E stored \in Outcomes :
          /\ Settled("upload", message, stored)
          /\ IF stored
             THEN /\ archive' = Append(archive, <<message, att>>)
                  /\ pc' = "log"
                  /\ UNCHANGED <<result, idx, att, processedDocs, scanLog, err>>
             ELSE /\ EmailFailed(AttachmentError(attachment, UploadError))
                  /\ UNCHANGED archive
    /\ UNCHANGED <<world, documents, ledger, scanLogs, runs, outcome, logId, candidates,
                   logWrites>>
    /\ UNCHANGED <<auth, helper>>

\* A ledger step that goes on to the document write when the append was rejected.
LogDocumentUnchecked ==
    /\ pc = "log"
    /\ Called("log", message)
    /\ \E appended \in Outcomes :
          /\ Settled("log", message, appended)
          /\ ledger' = IF appended THEN Append(ledger, <<message, att>>) ELSE ledger
          /\ pc' = "saveDocument"
          /\ UNCHANGED <<result, idx, att, processedDocs, scanLog, err>>
    /\ UNCHANGED <<world, documents, archive, scanLogs, runs, outcome, logId, candidates,
                   logWrites>>
    /\ UNCHANGED <<auth, helper>>

\* lines 157-164
LogDocument ==
    /\ pc = "log"
    /\ Called("log", message)
    /\ \E appended \in Outcomes :
          /\ Settled("log", message, appended)
          /\ IF appended
             THEN /\ ledger' = Append(ledger, <<message, att>>)
                  /\ pc' = "saveDocument"
                  /\ UNCHANGED <<result, idx, att, processedDocs, scanLog, err>>
             ELSE /\ EmailFailed(AttachmentError(attachment, LogDocumentError))
                  /\ UNCHANGED ledger
    /\ UNCHANGED <<world, documents, archive, scanLogs, runs, outcome, logId, candidates,
                   logWrites>>
    /\ UNCHANGED <<auth, helper>>

\* lines 166-204
SaveDocument ==
    /\ pc = "saveDocument"
    /\ Called("saveDocument", message)
    /\ \E saved \in Outcomes :
          /\ Settled("saveDocument", message, saved)
          /\ IF saved
             THEN /\ \E random \in RandomTokens :
                        documents' = Append(documents, NewDocument(random))
                  /\ PushSummary
             ELSE /\ EmailFailed(AttachmentError(attachment, StoreError))
                  /\ UNCHANGED documents
    /\ UNCHANGED <<world, archive, ledger, scanLogs, runs, outcome, logId, candidates,
                   logWrites>>
    /\ UNCHANGED <<auth, helper>>

(* ---------------- lines 90-102 ---------------- *)
SaveFinal ==
    /\ pc = "saveFinal"
    /\ \E saved \in Outcomes :
          /\ Settled("saveLog", 0, saved)
          /\ IF saved
             THEN /\ scanLogs' = [scanLogs EXCEPT ![logId] = scanLog]
                  /\ logWrites' = logWrites + 1
                  /\ outcome' = Returned(result)
                  /\ pc' = "idle"
                  /\ UNCHANGED <<err, scanLog>>
             ELSE /\ Caught(StoreError)
                  /\ UNCHANGED <<scanLogs, logWrites, outcome>>
    /\ UNCHANGED <<world, stores, runs, logId, result, candidates, idx, att,
                   processedDocs, calls>>
    /\ UNCHANGED <<auth, helper>>

(* ---------------- lines 107-110 ---------------- *)
\* A handler that raises the error of line 110 without the save of line 107.
HandleFailureUnsaved ==
    /\ pc = "handler"
    /\ outcome' = Thrown(ScanFailedError(err))
    /\ pc' = "idle"
    /\ UNCHANGED <<world, stores, scanLogs, runs, logId, scanLog, result, err, candidates,
                   idx, att, processedDocs, calls, logWrites, rejected, faults>>
    /\ UNCHANGED <<auth, helper>>

\* The save of line 107 is not guarded: when the store rejects it, that rejection
\* leaves scanAndProcess instead of the error of line 110.
HandleFailure ==
    /\ pc = "handler"
    /\ \E saved \in Outcomes :
          /\ Settled("saveFailed", 0, saved)
          /\ IF saved
             THEN /\ scanLogs' = [scanLogs EXCEPT ![logId] = scanLog]
                  /\ logWrites' = logWrites + 1
                  /\ outcome' = Thrown(ScanFailedError(err))
             ELSE /\ outcome' = Thrown(StoreError)
                  /\ UNCHANGED <<scanLogs, logWrites>>
    /\ pc' = "idle"
    /\ UNCHANGED <<world, stores, runs, logId, scanLog, result, err, candidates, idx, att,
                   processedDocs, calls>>
    /\ UNCHANGED <<auth, helper>>

Next ==
    \/ StartScan
    \/ Setup
    \/ LoadProcessedIds
    \/ Search
    \/ SaveEmpty
    \/ GetEmailDetails
    \/ Download
    \/ Upload
    \/ LogDocument
    \/ SaveDocument
    \/ SaveFinal
    \/ HandleFailure

Spec == Init /\ [][Next]_vars

(* ======================================================================= *)
(* AuthService (src/src/auth/auth.service.ts)                              *)
(*                                                                         *)
(* A store call takes effect at the store when it is issued, and the code  *)
(* after its await runs in a later step; in between, the steps of other    *)
(* calls may be taken. The clock advances only while no call is in flight: *)
(* a call is short compared with the lifetime of a token.                  *)
(* ======================================================================= *)
AuthNoToken == "No authentication tokens found"
AuthRefreshError == "Failed to refresh authentication tokens"
AuthGoogleError == "Failed to authenticate with Google"
AuthClearError == "Failed to clear authentication tokens"

\* A lookup that never finds the row.
findOneNone(rows) == {}

\* userTokenRepository.findOne({ where: { userId: defaultUserId } }): null is {}
findOne(rows) ==
    LET hits == {r \in rows : r.userId = defaultUserId}
    IN IF hits = {} THEN {} ELSE {CHOOSE r \in hits : TRUE}

\* A test of lines 108-109 that takes no credential as expired.
ExpiredNever(row) == FALSE

\* lines 76, 108-109: userToken.expiryDate && userToken.expiryDate <= Date.now()
Expired(row) == row.expiryDate # Null /\ row.expiryDate <= now

\* lines 97-103
tokensOf(row) ==
    [access_token |-> row.accessToken, refresh_token |-> row.refreshToken,
     scope |-> row.scope, token_type |-> row.tokenType, expiry_date |-> row.expiryDate]

\* Lines 137-141 with line 138 taking the exchanged refresh token as it comes.
MergedNoCarryOver(row, tok) ==
    [row EXCEPT !.accessToken = tok.access_token,
                !.refreshToken = tok.refresh_token,
                !.scope = tok.scope,
                !.tokenType = tok.token_type,
                !.expiryDate = tok.expiry_date]

\* lines 137-141: the loaded row with the exchanged values; line 138 keeps the row's
\* refresh token when the exchange brought none
Merged(row, tok) ==
    [row EXCEPT !.accessToken = tok.access_token,
                !.refreshToken = IF tok.refresh_token # Null THEN tok.refresh_token
                                 ELSE row.refreshToken,
                !.scope = tok.scope,
                !.tokenType = tok.token_type,
                !.expiryDate = tok.expiry_date]

\* lines 143-150: a new entity; its generated id is taken from the access token the
\* exchange issued, which no other row was created with
Created(tok) == UserToken(tok.access_token, tok)

\* lines 136-151
Entity(row, tok) == IF row = {} THEN Created(tok) ELSE Merged(CHOOSE r \in row : TRUE, tok)

\* A table without the unique index on userId.
AcceptsAny(rows, entity) == TRUE

\* userTokenRepository.save: the row of the entity's id is updated; when there is
\* none the entity is inserted, which the unique index on userId
\* (user-token.entity.ts line 14) refuses while another row of the user exists
Accepts(rows, entity) ==
    \/ \E r \in rows : r.id = entity.id
    \/ \A r \in rows : r.userId # entity.userId

Save(rows, entity) == {r \in rows : r.id # entity.id} \cup {entity}

\* the token sets the token endpoint may answer the exchange of call n with: a new
\* access token that expires later, with or without a refresh token (the row of
\* an earlier authorization holds token 1)
Exchanged(n) == {Credentials(n + 1, refresh, now + 1) : refresh \in {Null, n + 1}}

\* the user_tokens tables the service may start with: no row, or the row of an
\* earlier authorization
StoredStates ==
    {{}} \cup {{UserToken(1, Credentials(1, refresh, expiry))} :
                 refresh \in {Null, 1}, expiry \in {Null, 1, MaxTime}}

\* the scan cycle's part of the state while the credential lifecycle is studied
ScanQuiet ==
    /\ mailbox = <<>>
    /\ labelled = {}
    /\ documents = <<>>
    /\ scanLogs = <<>>
    /\ archive = <<>>
    /\ ledger = <<>>
    /\ runs = 0
    /\ pc = "idle"
    /\ outcome = NoOutcome
    /\ logId = 0
    /\ scanLog = NewScanLog
    /\ result = EmptyResult
    /\ err = <<>>
    /\ processedEmailIds = {}
    /\ messages = <<>>
    /\ unprocessedMessages = <<>>
    /\ idx = 0
    /\ att = 0
    /\ processedDocs = <<>>
    /\ calls = {}
    /\ logWrites = 0
    /\ rejected = {}

AuthInit ==
    /\ ScanQuiet
    /\ faults = 0
    /\ userTokens \in StoredStates
    /\ client = NoCredentials
    /\ now = 1
    /\ started = 0
    /\ ended = NoneEnded
    /\ call = [p \in Callers |-> Idle]
    /\ HelperQuiet

\* The outcomes of an awaited store call: TRUE, accepted; FALSE, rejected.
AuthOutcomes == IF faults < MaxAuthFaults THEN BOOLEAN ELSE {TRUE}
Fault(ok) == faults' = IF ok THEN faults ELSE faults + 1

\* caller p may make a call: callers are the calls that may be in flight at once, and
\* a call takes the first caller that has none
Free(p) ==
    /\ started < MaxCalls
    /\ call[p].phase = "idle"
    /\ \A q \in Callers : q < p => call[q].phase # "idle"

\* the call as it is made: method m, suspended at its first await
Begun(m, at) ==
    [Idle EXCEPT !.phase = at, !.method = m, !.number = started + 1, !.before = userTokens]

\* the callers after caller p has changed user_tokens and its call has become c: the
\* other calls in flight have been overtaken by a write
Wrote(p, c) ==
    [q \in Callers |->
        IF q = p THEN c
        ELSE IF call[q].phase = "idle" THEN call[q]
        ELSE [call[q] EXCEPT !.touched = TRUE]]

\* the call of caller p ends with r
End(p, r) ==
    /\ call' = [call EXCEPT ![p] = Idle]
    /\ ended' = LastCall(call[p].method, call[p].phase, r)

\* saveTokens is entered with the token set tok (line 132): findOne is issued
EnterSaveTokens(p, tok) ==
    \E ok \in AuthOutcomes :
        /\ Fault(ok)
        /\ ended' = ended
        /\ call' = [call EXCEPT ![p] =
                       [@ EXCEPT !.phase = "finding",
                                 !.tokens = tok,
                                 !.existing = IF ok THEN findOne(userTokens) ELSE {},
                                 !.settled = ok]]

\* what the caller of saveTokens throws when saveTokens throws (line 157): the catch
\* of refreshTokens (line 126) or of handleCallback (line 57)
SaveTokensError(p) == IF call[p].method = "get" THEN AuthRefreshError ELSE AuthGoogleError

(* ---------------- getAuthenticated: lines 91-92, loadTokens: lines 161-177 -------- *)
\* loadTokens answers null when findOne is rejected (lines 173-176)
GetAuthenticated ==
    \E p \in Callers :
        /\ Free(p)
        /\ started' = started + 1
        /\ \E ok \in AuthOutcomes :
              /\ Fault(ok)
              /\ call' = [call EXCEPT ![p] =
                             [Begun("get", "loading") EXCEPT
                                 !.userToken = IF ok THEN findOne(userTokens) ELSE {},
                                 !.settled = ok]]
        /\ UNCHANGED <<scanner, helper, userTokens, client, now, ended>>

(* ---------------- getAuthenticated: lines 93-116 ---------------- *)
\* refreshTokens (line 112) issues the refresh exchange of line 120
Loaded ==
    \E p \in Callers :
        /\ call[p].phase = "loading"
        /\ IF call[p].userToken = {}
           THEN /\ End(p, Failed(AuthNoToken))
                /\ client' = client
           ELSE LET row == CHOOSE r \in call[p].userToken : TRUE
                IN /\ client' = tokensOf(row)
                   /\ IF Expired(row) /\ row.refreshToken # Null
                      THEN /\ call' = [call EXCEPT ![p] =
                                          [@ EXCEPT !.phase = "refreshing",
                                                    !.exchanges = @ + 1]]
                           /\ ended' = ended
                      ELSE End(p, ReturnedClient)
        /\ UNCHANGED <<scanner, helper, faults, userTokens, now, started>>

(* ---------------- refreshTokens: lines 118-121 ---------------- *)
\* A refreshTokens that deletes the stored row when the exchange is rejected.
RefreshedClearsOnFailure ==
    \E p \in Callers :
        /\ call[p].phase = "refreshing"
        /\ \/ /\ faults < MaxAuthFaults
              /\ Fault(FALSE)
              /\ End(p, Failed(AuthRefreshError))
              /\ userTokens' = {}
           \/ /\ \E tok \in Exchanged(call[p].number) : EnterSaveTokens(p, tok)
              /\ userTokens' = userTokens
        /\ UNCHANGED <<scanner, helper, client, now, started>>

\* the exchange of line 120 is answered: rejected, the catch of lines 124-127; or
\* with a token set, which saveTokens is entered with (line 121)
Refreshed ==
    \E p \in Callers :
        /\ call[p].phase = "refreshing"
        /\ \/ /\ faults < MaxAuthFaults
              /\ Fault(FALSE)
              /\ End(p, Failed(AuthRefreshError))
           \/ \E tok \in Exchanged(call[p].number) : EnterSaveTokens(p, tok)
        /\ UNCHANGED <<scanner, helper, userTokens, client, now, started>>

(* ---------------- handleCallback: lines 45-47 ---------------- *)
HandleCallback ==
    \E p \in Callers :
        /\ Free(p)
        /\ started' = started + 1
        /\ call' = [call EXCEPT ![p] = Begun("callback", "exchanging")]
        /\ UNCHANGED <<scanner, helper, faults, userTokens, client, now, ended>>

\* getToken(code) is answered: rejected, the catch of lines 55-58; or with a token
\* set, which saveTokens is entered with (line 49)
CodeExchanged ==
    \E p \in Callers :
        /\ call[p].phase = "exchanging"
        /\ \/ /\ faults < MaxAuthFaults
              /\ Fault(FALSE)
              /\ End(p, Failed(AuthGoogleError))
           \/ \E tok \in Exchanged(call[p].number) : EnterSaveTokens(p, tok)
        /\ UNCHANGED <<scanner, helper, userTokens, client, now, started>>

(* ---------------- saveTokens: lines 132-153 ---------------- *)
\* findOne is answered: rejected, saveTokens throws (lines 155-158); otherwise the
\* entity is updated or created and its save is issued
Found ==
    \E p \in Callers :
        /\ call[p].phase = "finding"
        /\ IF ~call[p].settled
           THEN /\ End(p, Failed(SaveTokensError(p)))
                /\ UNCHANGED <<faults, userTokens>>
           ELSE LET entity == Entity(call[p].existing, call[p].tokens)
                IN \E ok \in AuthOutcomes :
                      /\ Fault(ok)
                      /\ IF ok /\ Accepts(userTokens, entity)
                         THEN /\ userTokens' = Save(userTokens, entity)
                              /\ ended' = ended
                              /\ call' = Wrote(p, [call[p] EXCEPT !.phase = "saving",
                                                                  !.settled = TRUE,
                                                                  !.replaced = userTokens,
                                                                  !.written = {entity}])
                         ELSE /\ userTokens' = userTokens
                              /\ ended' = ended
                              /\ call' = [call EXCEPT ![p] =
                                             [@ EXCEPT !.phase = "saving",
                                                       !.settled = FALSE]]
        /\ UNCHANGED <<scanner, helper, client, now, started>>

(* ---------------- lines 153-158, then 122-123 and 115, or 51-54 ---------------- *)
\* the save is answered: rejected, saveTokens throws; otherwise the token set is put
\* on the client and the call returns, the client (getAuthenticated) or the token
\* set (handleCallback)
Saved ==
    \E p \in Callers :
        /\ call[p].phase = "saving"
        /\ IF ~call[p].settled
           THEN /\ End(p, Failed(SaveTokensError(p)))
                /\ client' = client
           ELSE /\ client' = call[p].tokens
                /\ End(p, IF call[p].method = "get" THEN ReturnedClient ELSE ReturnedTokens)
        /\ UNCHANGED <<scanner, helper, faults, userTokens, now, started>>

(* ---------------- clearTokens: lines 179-187 ---------------- *)
ClearTokens ==
    \E p \in Callers :
        /\ Free(p)
        /\ started' = started + 1
        /\ \E ok \in AuthOutcomes :
              /\ Fault(ok)
              /\ IF ok
                 THEN /\ userTokens' = {r \in userTokens : r.userId # defaultUserId}
                      /\ call' = Wrote(p, Idle)
                      /\ ended' = LastCall("clear", "deleting", ReturnedVoid)
                 ELSE /\ userTokens' = userTokens
                      /\ call' = call
                      /\ ended' = LastCall("clear", "deleting", Failed(AuthClearError))
        /\ UNCHANGED <<scanner, helper, client, now>>

\* Date.now() moves on
Tick ==
    /\ \A p \in Callers : call[p].phase = "idle"
    /\ now < MaxTime
    /\ now' = now + 1
    /\ UNCHANGED <<scanner, helper, faults, userTokens, client, call, started, ended>>

AuthNext ==
    \/ GetAuthenticated
    \/ Loaded
    \/ Refreshed
    \/ HandleCallback
    \/ CodeExchanged
    \/ Found
    \/ Saved
    \/ ClearTokens
    \/ Tick

AuthSpec == AuthInit /\ [][AuthNext]_vars

(* ======================================================================= *)
(* The helper methods, applied to arguments of their own                   *)
(* ======================================================================= *)
\* the tokens filenames are made of, and the filenames up to MaxNameLength tokens
NameTokens == {"a", ".", "pdf", "PDF", "zip", "U+0130"}
Names == SeqsUpTo(NameTokens, MaxNameLength)

\* From headers: a bare address, a display name with an address, a local part
\* longer than MaxSenderName, and a value without @
Senders ==
    { <<"a", ".", "b", "@", "A">>,
      <<"A", " ", "<", "b", "@", "a", ">">>,
      [i \in 1..(MaxSenderName + 1) |-> "a"] \o <<"@", "b">>,
      <<"a", "1">> }
Subjects ==
    { <<"Invoice", " ", "42">>, <<"INV", "#", "7">>, <<"re", " ", "#", "7">>,
      <<"re", " ", "2024">>, <<"re", " ", "42">>, <<"Invoice", " ", "re">>, <<>> }
Dates ==
    {"Mon, 15 Jan 2024 10:00:00 +0000", "Mon, 15 Jan 2024 23:30:00 -0500", "yesterday", ""}
OriginalFilenames ==
    {Str(f) : f \in {<<"a", ".", "pdf">>, <<"a", ".", "b", ".", "PDF">>, <<"a">>, <<"a", ".">>}}
       \cup {Undefined}

\* byte counts: zero, and the mantissas below times 1024^k for k up to MaxExponent
Mantissas == {1, 128, 1000, 1023, 1024, 1536}
Sizes == {Bytes(0, 0)} \cup {Bytes(m, k) : m \in Mantissas, k \in 0..MaxExponent}

Arguments ==
    {[fn |-> "isDocumentFile", filename |-> f] : f \in Names}
       \cup {[fn |-> "formatFileSize", sizeInBytes |-> size] : size \in Sizes}
       \cup {[fn |-> "generateStructuredFilename", senderEmail |-> from, subject |-> s,
              date |-> d, originalFilename |-> f, random |-> r] :
                 from \in Senders, s \in Subjects, d \in Dates, f \in OriginalFilenames,
                 r \in RandomTokens}

HelperInit ==
    /\ ScanQuiet
    /\ faults = 0
    /\ AuthQuiet
    /\ arg \in Arguments
    /\ out = NoOutput

\* scanner.service.ts lines 220-236
IsDocumentFile ==
    /\ arg.fn = "isDocumentFile"
    /\ out = NoOutput
    /\ out' = [fn |-> "isDocumentFile", value |-> isDocumentFile(arg.filename)]
    /\ UNCHANGED <<scanner, faults, auth, arg>>

\* scanner.service.ts lines 238-251
FormatFileSize ==
    /\ arg.fn = "formatFileSize"
    /\ out = NoOutput
    /\ out' = [fn |-> "formatFileSize", value |-> formatFileSize(arg.sizeInBytes)]
    /\ UNCHANGED <<scanner, faults, auth, arg>>

\* gmail.service.ts lines 413-444
GenerateStructuredFilename ==
    /\ arg.fn = "generateStructuredFilename"
    /\ out = NoOutput
    /\ out' = [fn |-> "generateStructuredFilename",
               value |-> generateStructuredFilename(arg.senderEmail, arg.subject, arg.date,
                                                    arg.originalFilename, arg.random)]
    /\ UNCHANGED <<scanner, faults, auth, arg>>

HelperNext ==
    \/ IsDocumentFile
    \/ FormatFileSize
    \/ GenerateStructuredFilename

HelperSpec == HelperInit /\ [][HelperNext]_vars

(* ======================================================================= *)
(* Properties                                                              *)
(* ======================================================================= *)
Row == scanLogs[logId]
Ended == pc = "idle" /\ runs > 0
WasCalled(op, e) == <<op, e>> \in calls
WasRejected(op, e) == <<op, e>> \in rejected
\* the for-loop of lines 71-88 was entered and has been left
LoopLeft == unprocessedMessages # <<>> /\ pc \in {"saveFinal", "handler", "idle"}
FatalMessages == {DriveFolderError, SpreadsheetError, StoreError, SearchError}
HasPrefix(s, prefix) == Len(s) >= Len(prefix) /\ SubSeq(s, 1, Len(prefix)) = prefix
DocumentAttachments(e) == {j \in 1..Len(mailbox[e]) : isDocumentFile(mailbox[e][j])}

(* C1: per-email failure isolation. Whatever per-email pipelines fail, the loop  *)
(* runs every unprocessed email through the pipeline and accounts for each one   *)
(* exactly once, as processed or as an error; no email's error ever reaches the  *)
(* top-level handler or the caller; and unless a store write of the run log      *)
(* itself is rejected, the run is persisted as completed and scanAndProcess      *)
(* returns the result, even when every email failed.                             *)
C1_FailureIsolation ==
    /\ LoopLeft =>
          /\ \A i \in 1..Len(unprocessedMessages) :
                WasCalled("details", unprocessedMessages[i])
          /\ result.processed + Len(result.errors) = Len(unprocessedMessages)
    /\ pc \in {"handler", "idle"} => err \in FatalMessages \cup {<<>>}
    /\ (Ended /\ outcome.kind = "throw") =>
          outcome.msg \in {StoreError} \cup {ScanFailedError(m) : m \in FatalMessages}
    /\ (Ended /\ LoopLeft /\ ~WasRejected("saveLog", 0)) =>
          /\ outcome = Returned(result)
          /\ Row.status = "completed"

\* every email of a run with two emails failed, and the run completed
C1_Witness ==
    /\ Ended
    /\ Len(unprocessedMessages) = 2
    /\ Len(result.errors) = 2
    /\ WasRejected("details", unprocessedMessages[1])
    /\ outcome = Returned(result)
    /\ Row.status = "completed"

(* C2: partial-failure accounting. In a run with N unprocessed emails in which   *)
(* the only rejected calls are the attachment downloads of the emails in F, the  *)
(* returned processed count is N - |F|, the errors are one per email of F, each  *)
(* carrying that email's id in front, and every document attachment of every     *)
(* other email has a ProcessedDocument row.                                      *)
C2_PartialFailure ==
    LET F == {e \in DOMAIN mailbox : WasRejected("download", e)}
        N == Len(unprocessedMessages)
        errors == outcome.value.errors
    IN (/\ Ended
        /\ outcome.kind = "return"
        /\ N > 0
        /\ rejected \subseteq {<<"download", e>> : e \in DOMAIN mailbox}) =>
          /\ outcome.value.processed = N - Cardinality(F)
          /\ Len(errors) = Cardinality(F)
          /\ \A e \in F : \E i \in 1..Len(errors) :
                HasPrefix(errors[i], <<"Email", ToString(e)>>)
          /\ \A i \in 1..N : unprocessedMessages[i] \notin F =>
                \A j \in DocumentAttachments(unprocessedMessages[i]) :
                   \E k \in 1..Len(documents) :
                      /\ documents[k].emailId = unprocessedMessages[i]
                      /\ documents[k].att = j

(* C3: idempotence. When a scan that returned is followed by a second scan over  *)
(* the same mailbox, with no call rejected in either, the second scan returns    *)
(* zero processed emails and zero errors.                                        *)
C3_Idempotent ==
    (/\ Ended
     /\ logId >= 2
     /\ faults = 0
     /\ scanLogs[logId - 1].status = "completed"
     /\ outcome.kind = "return") =>
          /\ outcome.value.processed = 0
          /\ outcome.value.errors = <<>>

(* C4: deduplication. Every call a run makes on an email (details fetch,         *)
(* download, upload, ledger append, ProcessedDocument write) is on a candidate   *)
(* email that had no ProcessedDocument row when the run loaded the dedup set:    *)
(* every row carrying that email's id was inserted by the run itself.            *)
C4_Deduplication ==
    \A c \in calls : c[2] # 0 =>
       /\ c[2] \in Range(messages)
       /\ c[2] \notin processedEmailIds
       /\ \A k \in 1..Len(documents) :
             documents[k].emailId = c[2] => documents[k].processedAt = runs

\* a run that leaves out an email of the dedup set and works on another one
C4_Witness ==
    /\ \E e \in Range(messages) : e \in processedEmailIds
    /\ \E e \in Range(messages) : WasCalled("saveDocument", e)

(* C5: run-record state machine. Every invocation inserts at most one ScanRun    *)
(* row, with status started, and exactly one unless the store rejects the        *)
(* insert; a row changes only when its status goes from started to completed or  *)
(* to failed, so a completed or failed row never changes again; the row is       *)
(* written at most once after its insertion, and exactly once by the time the    *)
(* invocation returns or raises the error of line 110.                           *)
C5_Transitions ==
    /\ runs' = runs + 1 =>
          \/ /\ Len(scanLogs') = Len(scanLogs) + 1
             /\ SubSeq(scanLogs', 1, Len(scanLogs)) = scanLogs
             /\ scanLogs'[Len(scanLogs')].status = "started"
             /\ logId' = Len(scanLogs')
          \/ /\ scanLogs' = scanLogs
             /\ <<"insertLog", 0>> \in rejected'
    /\ runs' = runs => Len(scanLogs') = Len(scanLogs)
    /\ \A i \in 1..Len(scanLogs) :
          scanLogs'[i] # scanLogs[i] =>
             /\ i = logId
             /\ scanLogs[i].status = "started"
             /\ scanLogs'[i].status \in {"completed", "failed"}

C5_Written ==
    /\ Len(scanLogs) <= runs
    /\ logWrites \in {0, 1}
    /\ logId # 0 => (logWrites = 0 <=> Row.status = "started")
    /\ (Ended /\ logId # 0 /\ ~WasRejected("saveFailed", 0)) => logWrites = 1

C5_RunRecord == []C5_Written /\ [][C5_Transitions]_vars

\* a completed run followed by a failed one
C5_Witness ==
    /\ Ended
    /\ Len(scanLogs) = 2
    /\ scanLogs[1].status = "completed"
    /\ scanLogs[2].status = "failed"
    /\ logWrites = 1

(* C6 as claimed: once an invocation that persisted its ScanRun as started has   *)
(* returned or thrown, the row is completed or failed, whatever collaborator or  *)
(* store call was rejected during the run.                                       *)
C6_TerminalWhateverFails ==
    (Ended /\ logId # 0) => Row.status \in {"completed", "failed"}

(* C6 as amended: once an invocation that persisted its ScanRun as started has   *)
(* returned or thrown, the row is completed or failed, whatever collaborator or  *)
(* store call was rejected during the run, except the failure handler's own save *)
(* of the row (line 107): when that save is rejected the row stays started and   *)
(* the store's error is what the caller gets.                                    *)
C6_TerminalUnlessHandlerSaveFails ==
    /\ (Ended /\ logId # 0 /\ ~WasRejected("saveFailed", 0)) =>
          Row.status \in {"completed", "failed"}
    /\ (Ended /\ logId # 0 /\ WasRejected("saveFailed", 0)) =>
          /\ Row.status = "started"
          /\ outcome = Thrown(StoreError)

\* the load of the dedup set was rejected and the run was persisted as failed
C6_Witness ==
    /\ Ended
    /\ WasRejected("find", 0)
    /\ Row.status = "failed"

(* C7: fatal failures are recorded before they are surfaced. Whenever            *)
(* scanAndProcess raises "Scan process failed: m", m is the message of a         *)
(* rejection of the setup, of the load of the dedup set, of the mail search or   *)
(* of the final run-log write, and the ScanRun row is already persisted with     *)
(* status failed and m in errorDetails; and every such rejection ends that way   *)
(* when the handler's save is accepted.                                          *)
C7_FatalRecorded ==
    /\ (Ended /\ outcome.kind = "throw" /\ HasPrefix(outcome.msg, <<"Scan process failed">>)) =>
          /\ logId # 0
          /\ err \in FatalMessages
          /\ outcome.msg = ScanFailedError(err)
          /\ Row.status = "failed"
          /\ Row.errorDetails = TextDetails(err)
    /\ (/\ Ended
        /\ \E op \in {"setup", "find", "search", "saveLog"} : WasRejected(op, 0)
        /\ ~WasRejected("saveFailed", 0)) =>
          /\ outcome = Thrown(ScanFailedError(err))
          /\ Row.status = "failed"
          /\ Row.errorDetails = TextDetails(err)

\* the final run-log write was rejected, and the failure was recorded and raised
C7_Witness ==
    /\ Ended
    /\ LoopLeft
    /\ WasRejected("saveLog", 0)
    /\ outcome = Thrown(ScanFailedError(StoreError))
    /\ Row.status = "failed"
    /\ Row.errorDetails = TextDetails(StoreError)

(* C8: setup failure touches no email. In a run whose container or ledger setup  *)
(* was rejected, no mail search, details fetch, download, upload, ledger append, *)
(* ProcessedDocument write or label is performed, and (its save accepted) the    *)
(* run is persisted as failed and the error is raised to the caller.             *)
C8_SetupFailure ==
    WasRejected("setup", 0) =>
       /\ calls = {}
       /\ pc \in {"handler", "idle"}
       /\ \A k \in 1..Len(documents) : documents[k].processedAt # runs
       /\ err \in {DriveFolderError, SpreadsheetError}
       /\ (Ended /\ ~WasRejected("saveFailed", 0)) =>
             /\ Row.status = "failed"
             /\ outcome = Thrown(ScanFailedError(err))

\* the provisioning of the Drive folder failed in a second run
C8_Witness ==
    /\ Ended
    /\ runs = 2
    /\ documents # <<>>
    /\ err = DriveFolderError
    /\ Row.status = "failed"

(* C9: a ScanRun persisted as failed because the setup was rejected has          *)
(* documentsProcessed = 0 and errorsCount = 0.                                   *)
C9_SetupFailedCounters ==
    (logId # 0 /\ WasRejected("setup", 0) /\ Row.status = "failed") =>
       /\ Row.documentsProcessed = 0
       /\ Row.errorsCount = 0

\* the provisioning of the spreadsheet failed and the row says failed
C9_Witness ==
    /\ logId # 0
    /\ err = SpreadsheetError
    /\ Row.status = "failed"
    /\ Row.errorsCount = 0

(* C10: empty-scan short circuit. When the search returns no candidate outside   *)
(* the dedup set, the run makes no call on any email (no details fetch,          *)
(* download, upload, ledger append, ProcessedDocument write, label), and (its    *)
(* save accepted) it is persisted as completed with emailsProcessed,             *)
(* documentsProcessed and errorsCount 0 and returns processed = 0 with empty     *)
(* details and errors.                                                           *)
C10_EmptyScan ==
    (/\ WasCalled("search", 0)
     /\ ~WasRejected("search", 0)
     /\ Range(messages) \subseteq processedEmailIds) =>
       /\ calls = {<<"search", 0>>}
       /\ \A k \in 1..Len(documents) : documents[k].processedAt # runs
       /\ result = EmptyResult
       /\ (Ended /\ ~WasRejected("saveLog", 0)) =>
             /\ outcome = Returned(EmptyResult)
             /\ Row.status = "completed"
             /\ Row.emailsProcessed = 0
             /\ Row.documentsProcessed = 0
             /\ Row.errorsCount = 0
             /\ Row.errorDetails = NullDetails

\* every candidate of the second run is in the dedup set
C10_Witness ==
    /\ Ended
    /\ messages # <<>>
    /\ Range(messages) \subseteq processedEmailIds
    /\ outcome = Returned(EmptyResult)
    /\ Row.status = "completed"

(* C11: completed-run counters agree with the returned result. Whenever the  *)
(* invocation has ended and its scan_logs row is persisted as completed, the  *)
(* invocation returned a result, the row's emailsProcessed is the result's    *)
(* processed count, documentsProcessed is the length of its details list,     *)
(* errorsCount is the length of its errors list, and errorDetails is null     *)
(* exactly when the errors list is empty (otherwise it is the serialisation   *)
(* of that list).                                                             *)
C11_CountersAgree ==
    (Ended /\ logId # 0 /\ Row.status = "completed") =>
        /\ outcome.kind = "return"
        /\ Row.emailsProcessed = outcome.value.processed
        /\ Row.documentsProcessed = Len(outcome.value.details)
        /\ Row.errorsCount = Len(outcome.value.errors)
        /\ (Row.errorDetails = NullDetails) <=> (outcome.value.errors = <<>>)
        /\ outcome.value.errors # <<>> =>
               Row.errorDetails = JsonDetails(outcome.value.errors)

\* a completed run that processed one email and recorded the error of another
C11_Witness ==
    /\ Ended /\ logId # 0 /\ Row.status = "completed"
    /\ outcome.kind = "return"
    /\ outcome.value.processed = 1
    /\ Len(outcome.value.errors) = 1
    /\ Row.errorsCount = 1
    /\ Row.errorDetails.kind = "json"

\* the running invocation stored a ProcessedDocument for an attachment of email e
PersistedNow(e) ==
    \E i \in 1..Len(documents) : documents[i].emailId = e /\ documents[i].processedAt = runs
\* no collaborator or store call made on email e was rejected
NoStepFailed(e) == \A c \in rejected : c[2] # e

(* C12: marker application. When a run has returned, an email it put through *)
(* the per-email pipeline carries the label processed-financial-docs if and   *)
(* only if an attachment of the email went through download, upload, ledger   *)
(* append and ProcessedDocument save in that run and no step on the email was *)
(* rejected; an email whose attachments are all non-document files, and      *)
(* whose details were fetched, has no ProcessedDocument, no error entry and   *)
(* no label.                                                                  *)
C12_MarkerApplied ==
    (Ended /\ outcome.kind = "return") =>
        \A e \in Range(unprocessedMessages) :
            /\ (e \in labelled) <=> (PersistedNow(e) /\ NoStepFailed(e))
            /\ (DocumentAttachments(e) = {} /\ NoStepFailed(e)) =>
                  /\ ~PersistedNow(e)
                  /\ e \notin labelled
                  /\ \A i \in 1..Len(outcome.value.errors) :
                        ~HasPrefix(outcome.value.errors[i], <<"Email", ToString(e), ":">>)

(* ----------------------------------------------------------------------- *)
(* AuthService                                                             *)
(* ----------------------------------------------------------------------- *)
\* the call of caller p ends in this step
Returns(p) == call[p].phase # "idle" /\ call'[p].phase = "idle"
\* the row a call holds in a local that is not null
TheRow(rows) == CHOOSE r \in rows : TRUE
\* the expiry of the row is set and has passed
PastExpiry(row) == row.expiryDate # Null /\ row.expiryDate <= now
InFlight(ph) == {p \in Callers : call[p].phase = ph}

(* C13: getAuthenticated never hands out an expired credential. In every step *)
(* in which a getAuthenticated call returns the client, the credentials the   *)
(* client holds have no expiry or an expiry later than now.                   *)
C13_NeverExpired ==
    [][\A p \in Callers :
          (Returns(p) /\ call[p].method = "get" /\ ended'.ret.kind = "client") =>
              (client'.expiry_date = Null \/ client'.expiry_date > now)]_vars

(* C14: a getAuthenticated call that loaded a row whose expiry has passed and *)
(* which has no refresh token ends by throwing, and it has issued no refresh  *)
(* exchange.                                                                  *)
C14_ExpiredWithoutRefreshFails ==
    [][\A p \in Callers :
          (/\ Returns(p)
           /\ call[p].method = "get"
           /\ call[p].userToken # {}
           /\ PastExpiry(TheRow(call[p].userToken))
           /\ TheRow(call[p].userToken).refreshToken = Null) =>
              (ended'.ret.kind = "throw" /\ call[p].exchanges = 0)]_vars

(* C15: one refresh exchange per call. A getAuthenticated call that loaded a  *)
(* row has, when it ends, issued exactly one refresh exchange if the row's    *)
(* expiry had passed and the row had a refresh token, and none otherwise;     *)
(* and when it returns the client after an exchange, the store has accepted   *)
(* its save of a row that carries the exchanged access token, scope, token    *)
(* type and expiry (and the exchanged refresh token when there is one), and   *)
(* the client holds the exchanged token set.                                  *)
C15_OneExchangePersisted ==
    [][\A p \in Callers :
          (Returns(p) /\ call[p].method = "get" /\ call[p].userToken # {}) =>
              LET row == TheRow(call[p].userToken)
                  tok == call[p].tokens
              IN /\ call[p].exchanges =
                       IF PastExpiry(row) /\ row.refreshToken # Null THEN 1 ELSE 0
                 /\ (ended'.ret.kind = "client" /\ call[p].exchanges = 1) =>
                       /\ call[p].written # {}
                       /\ TheRow(call[p].written).accessToken = tok.access_token
                       /\ TheRow(call[p].written).scope = tok.scope
                       /\ TheRow(call[p].written).tokenType = tok.token_type
                       /\ TheRow(call[p].written).expiryDate = tok.expiry_date
                       /\ tok.refresh_token # Null =>
                             TheRow(call[p].written).refreshToken = tok.refresh_token
                       /\ tok.access_token # Null
                       /\ client' = tok]_vars

\* a getAuthenticated call has refreshed, its save is accepted and it is about to
\* return the client
C15_Witness ==
    \E p \in Callers :
        /\ call[p].method = "get"
        /\ call[p].phase = "saving"
        /\ call[p].settled
        /\ call[p].exchanges = 1
        /\ call[p].written = userTokens
        /\ call[p].replaced = call[p].userToken

(* C16: serialized refresh. At most one refresh exchange is in flight at any  *)
(* time, and the save of a refreshing getAuthenticated call replaces the very *)
(* row the call loaded: no other write of user_tokens lies between its load   *)
(* and its save.                                                              *)
C16_SerializedRefresh ==
    /\ Cardinality(InFlight("refreshing")) <= 1
    /\ \A p \in Callers :
          (call[p].method = "get" /\ call[p].phase = "saving" /\ call[p].settled) =>
              call[p].replaced = call[p].userToken

\* findOne of loadTokens was rejected, which loadTokens answers with null
LoadRejected(p) == call[p].phase = "loading" /\ ~call[p].settled
\* whether a call that ends this way throws "No authentication tokens found"
Unauthenticated(r) == r = Failed(AuthNoToken)

(* C17 as stated: a getAuthenticated call throws "No authentication tokens    *)
(* found" exactly when user_tokens held no row when the call read it.         *)
C17_UnauthenticatedIffNoRow ==
    [][\A p \in Callers :
          (Returns(p) /\ call[p].method = "get") =>
              (Unauthenticated(ended'.ret) <=> call[p].before = {})]_vars

(* C17, amended: a getAuthenticated call throws "No authentication tokens     *)
(* found" exactly when user_tokens held no row when the call read it or the   *)
(* store rejected that read.                                                  *)
C17_UnauthenticatedIffNoRowOrReadFails ==
    [][\A p \in Callers :
          (Returns(p) /\ call[p].method = "get") =>
              (Unauthenticated(ended'.ret) <=> (call[p].before = {} \/ LoadRejected(p)))]_vars

\* the first call is a getAuthenticated on an empty table: it has thrown
C17_Witness ==
    /\ ended = LastCall("get", "loading", Failed(AuthNoToken))
    /\ userTokens = {}
    /\ started = 1
    /\ faults = 0

(* C18: a failed refresh leaves the store untouched. When the refresh         *)
(* exchange of a getAuthenticated call is rejected, the call throws "Failed   *)
(* to refresh authentication tokens", the step does not change user_tokens,   *)
(* the call has written no row, and unless another call changed the table     *)
(* meanwhile user_tokens is what it was when the call was made.               *)
C18_FailedRefreshKeepsStore ==
    [][\A p \in Callers :
          (call[p].phase = "refreshing" /\ Returns(p)) =>
              /\ ended'.ret = Failed(AuthRefreshError)
              /\ userTokens' = userTokens
              /\ call[p].written = {}
              /\ ~call[p].touched => userTokens' = call[p].before]_vars

\* a getAuthenticated call has ended on a rejected refresh exchange
C18_Witness ==
    /\ ended = LastCall("get", "refreshing", Failed(AuthRefreshError))
    /\ userTokens # {}
    /\ faults = 1

(* C19: refresh-token carry-over. When the save of a refreshing               *)
(* getAuthenticated call is accepted and saveTokens had found a row: the      *)
(* saved row keeps the found row's refresh token if the exchange brought      *)
(* none, and has a refresh token whenever the found row had one; and if no    *)
(* other call changed the table meanwhile, a table whose row had a refresh    *)
(* token still has one in every row after the save.                           *)
C19_RefreshTokenCarriedOver ==
    [][\A p \in Callers :
          (/\ call[p].method = "get"
           /\ call[p].phase = "finding"
           /\ call'[p].phase = "saving"
           /\ call'[p].settled) =>
              LET saved == TheRow(call'[p].written)
                  tok == call[p].tokens
              IN /\ call[p].existing # {} =>
                       /\ tok.refresh_token = Null =>
                             saved.refreshToken = TheRow(call[p].existing).refreshToken
                       /\ tok.refresh_token # Null => saved.refreshToken = tok.refresh_token
                       /\ TheRow(call[p].existing).refreshToken # Null =>
                             saved.refreshToken # Null
                 /\ (~call[p].touched /\ \E r \in userTokens : r.refreshToken # Null) =>
                       \A r \in userTokens' : r.refreshToken # Null]_vars

\* the save of a refresh whose exchange brought no refresh token was accepted: the
\* stored row has the new access token and the refresh token of before
C19_Witness ==
    \E p \in Callers :
        /\ call[p].method = "get"
        /\ call[p].phase = "saving"
        /\ call[p].settled
        /\ call[p].tokens.refresh_token = Null
        /\ \E r \in userTokens :
              /\ r.accessToken = call[p].tokens.access_token
              /\ r.refreshToken # Null
              /\ r.refreshToken = TheRow(call[p].userToken).refreshToken

(* C20: single credential record. user_tokens never holds more than one row   *)
(* of default_user, whatever handleCallback, getAuthenticated (refresh) and   *)
(* clearTokens calls are made and however they interleave; and a save into a  *)
(* table that holds a row leaves the table with a row of the same id: the     *)
(* row is updated in place.                                                   *)
C20_AtMostOne == Cardinality({r \in userTokens : r.userId = defaultUserId}) <= 1
C20_InPlace ==
    (userTokens # {} /\ userTokens' # {}) =>
        {r.id : r \in userTokens'} = {r.id : r \in userTokens}
C20_SingleRecord == []C20_AtMostOne /\ [][C20_InPlace]_vars

\* two handleCallback calls overlapped on an empty table, both found no row and both
\* created one: one insert was accepted, the other refused by the unique index
C20_Witness ==
    \E p, q \in Callers :
        /\ p # q
        /\ call[p].method = "callback" /\ call[q].method = "callback"
        /\ call[p].phase = "saving" /\ call[q].phase = "saving"
        /\ call[p].existing = {} /\ call[q].existing = {}
        /\ call[p].settled /\ ~call[q].settled
        /\ faults = 0
        /\ Cardinality(userTokens) = 1

(* C21: the lifecycle of a ProcessedDocument. A record is inserted only by the   *)
(* document write of processEmail, after the upload and the ledger append of the *)
(* same attachment succeeded in the same invocation; it carries the reference of *)
(* that upload and the row of that append, with status completed; there is at    *)
(* most one record per attachment over all invocations; and no step changes or   *)
(* removes a record once it is inserted.                                         *)
C21_Inserted ==
    documents' # documents =>
       /\ pc = "saveDocument"
       /\ Len(documents') = Len(documents) + 1
       /\ LET d == documents'[Len(documents')]
          IN /\ d.emailId = message /\ d.att = att
             /\ d.originalFileName = mailbox[message][att]
             /\ d.status = "completed"
             /\ d.processedAt = runs
             /\ WasCalled("upload", message) /\ ~WasRejected("upload", message)
             /\ WasCalled("log", message) /\ ~WasRejected("log", message)
             /\ d.driveFileId = Len(archive) /\ archive' = archive
             /\ d.driveFileId \in 1..Len(archive)
             /\ archive[d.driveFileId] = <<message, att>>
             /\ d.spreadsheetRow = Len(ledger) + 1 /\ ledger' = ledger
             /\ d.spreadsheetRow - 1 \in 1..Len(ledger)
             /\ ledger[d.spreadsheetRow - 1] = <<message, att>>
C21_Kept ==
    /\ Len(documents') >= Len(documents)
    /\ \A i \in 1..Len(documents) : documents'[i] = documents[i]
C21_OnePerAttachment ==
    \A i, j \in 1..Len(documents) :
       (documents[i].emailId = documents[j].emailId /\ documents[i].att = documents[j].att)
          => i = j
C21_DocumentLifecycle ==
    /\ []C21_OnePerAttachment
    /\ [][C21_Inserted /\ C21_Kept]_vars
\* a record inserted by an earlier invocation is still there when a later one ends
C21_Witness ==
    /\ Ended /\ runs = 2
    /\ \E i \in 1..Len(documents) : documents[i].processedAt = 1

(* C22: a failing attachment aborts its email only. When a step of one           *)
(* attachment fails (download, upload, ledger append, document write, recording  *)
(* of the summary), processEmail is left at that attachment: the step adds       *)
(* exactly one error entry, which names the email and the filename of the        *)
(* failing attachment, counts nothing as processed, applies no marker and moves  *)
(* the loop past the email; every effect of the pipeline concerns the attachment *)
(* the loop stands at, the loop never goes back, and no email is run twice in    *)
(* one invocation, so nothing is done for the later attachments of that email    *)
(* and the email has one error entry at most.                                    *)
AttachmentSteps == {"download", "upload", "log", "saveDocument"}
ErrorsOf(e) ==
    {k \in 1..Len(result.errors) : HasPrefix(result.errors[k], <<"Email", ToString(e), ":">>)}
C22_Aborted ==
    (pc \in AttachmentSteps /\ pc' \notin AttachmentSteps \cup {"label"}) =>
       /\ Len(result'.errors) = Len(result.errors) + 1
       /\ SubSeq(result'.errors, 1, Len(result.errors)) = result.errors
       /\ HasPrefix(result'.errors[Len(result'.errors)],
                    <<"Email", ToString(message), ":", "Failed to process attachment">>
                       \o mailbox[message][att] \o <<":">>)
       /\ result'.processed = result.processed
       /\ result'.details = result.details
       /\ labelled' = labelled
       /\ \/ idx' = idx + 1 /\ pc' = "details" /\ att' = 0
          \/ idx = Len(unprocessedMessages) /\ pc' = "saveFinal"
C22_OnlyCurrent ==
    /\ archive' # archive => pc = "upload" /\ archive' = Append(archive, <<message, att>>)
    /\ ledger' # ledger => pc = "log" /\ ledger' = Append(ledger, <<message, att>>)
    /\ documents' # documents => pc = "saveDocument"
    /\ (pc \in AttachmentSteps /\ pc' \in AttachmentSteps) =>
          idx' = idx /\ att' = att /\ unprocessedMessages' = unprocessedMessages
    /\ (pc \notin {"idle", "search"} /\ pc' # "idle") =>
          idx' >= idx /\ unprocessedMessages' = unprocessedMessages
C22_OneEntry ==
    /\ \A i, j \in 1..Len(unprocessedMessages) :
          unprocessedMessages[i] = unprocessedMessages[j] => i = j
    /\ \A e \in 1..NumEmails : Cardinality(ErrorsOf(e)) <= 1
C22_AttachmentFailure ==
    /\ []C22_OneEntry
    /\ [][C22_Aborted /\ C22_OnlyCurrent]_vars
\* an email with two document attachments whose first upload was stored and whose
\* ledger append was rejected: one error entry, nothing done for the second file
C22_Witness ==
    \E e \in 1..Len(mailbox) :
       /\ DocumentAttachments(e) = {1, 2}
       /\ Ended
       /\ WasRejected("log", e)
       /\ Cardinality(ErrorsOf(e)) = 1
       /\ <<e, 1>> \in Range(archive)
       /\ <<e, 2>> \notin Range(archive)

(* C23: isDocumentFile accepts a filename exactly when it has a dot and the text *)
(* after its last dot, compared without regard to case, is one of pdf, doc,      *)
(* docx, png, jpg, jpeg, gif, tiff; a filename without a dot is not a document.  *)
ListedExtensions ==
    { <<"pdf">>, <<"doc">>, <<"docx">>, <<"png">>, <<"jpg">>, <<"jpeg">>, <<"gif">>,
      <<"tiff">> }
AfterLastDot(filename) == SubSeq(filename, lastIndexOf(filename) + 2, Len(filename))
HasListedExtension(filename) ==
    /\ lastIndexOf(filename) >= 0
    /\ toLowerCase(AfterLastDot(filename)) \in ListedExtensions
C23_DocumentIffListed ==
    out.fn = "isDocumentFile" => (out.value <=> HasListedExtension(arg.filename))

(* C24: the structured filename. Every record of an attachment whose email has a *)
(* parseable date carries a name of the form                                     *)
(* <local part of the sender, alphanumerics only, 20 characters at most>_        *)
(* <invoice token>_<day of the email date>.<extension>, the extension being that *)
(* of the attachment's own filename, pdf when it has none.                       *)
OwnExtension(filename) ==
    IF lastIndexOf(filename) = -1 THEN <<"pdf">> ELSE AfterLastDot(filename)
HasSuffix(s, suffix) ==
    Len(s) >= Len(suffix) /\ SubSeq(s, Len(s) - Len(suffix) + 1, Len(s)) = suffix
C24_StructuredName ==
    \A i \in 1..Len(documents) :
       formattedDate(emailDetails.date) # InvalidDate =>
          /\ HasPrefix(documents[i].fileName,
                       senderName(emailDetails.from) \o <<"_", "INV">>)
          /\ HasSuffix(documents[i].fileName,
                       <<"_", formattedDate(emailDetails.date), ".">>
                          \o OwnExtension(documents[i].originalFileName))

(* C25: a failing derivation of the filename is not fatal. A record whose name   *)
(* is the fallback name carries <today>_<original filename of its attachment>.   *)
C25_FallbackName ==
    \A i \in 1..Len(documents) :
       HasPrefix(documents[i].fileName, <<timestamp, "_">>) =>
          documents[i].fileName = <<timestamp, "_">> \o documents[i].originalFileName

(* C26: generated filenames are unique. No two records carry the same generated  *)
(* filename, whether their attachments belong to one email or to two.            *)
C26_UniqueNames ==
    \A i, j \in 1..Len(documents) :
       documents[i].fileName = documents[j].fileName => i = j

(* C27: formatFileSize renders 0 bytes as Unknown and every positive byte count  *)
(* as a number followed by one of the units B, KB, MB, GB (1536 as 1.5 KB,       *)
(* 1073741824 as 1 GB); for no positive count is the unit anything else.         *)
C27_Units ==
    out.fn = "formatFileSize" =>
       /\ arg.sizeInBytes = Bytes(0, 0) => out.value = <<"Unknown">>
       /\ arg.sizeInBytes = Bytes(1536, 0) => out.value = <<"1", ".", "5", " ", "KB">>
       /\ arg.sizeInBytes = Bytes(1, 3) => out.value = <<"1", " ", "GB">>
       /\ arg.sizeInBytes.mantissa > 0 =>
             /\ Len(out.value) >= 3
             /\ out.value[Len(out.value) - 1] = " "
             /\ out.value[Len(out.value)] \in {"B", "KB", "MB", "GB"}

(* C28: the counters of a completed run match what it persisted. When the        *)
(* invocation has ended and its scan_logs row is persisted as completed, the     *)
(* row's documentsProcessed, and the length of the returned details list, is the *)
(* number of ProcessedDocument records the invocation inserted.                  *)
InsertedNow == {i \in 1..Len(documents) : documents[i].processedAt = runs}
C28_CountersMatchRecords ==
    (Ended /\ logId # 0 /\ Row.status = "completed") =>
        /\ Row.documentsProcessed = Cardinality(InsertedNow)
        /\ outcome.kind = "return" => Len(outcome.value.details) = Cardinality(InsertedNow)

(* C29: exclusion by the dedup set implies full ingestion. Once no invocation is *)
(* running, every email that has a ProcessedDocument record has one for each of  *)
(* its document attachments.                                                     *)
HasRecord(e, j) ==
    \E i \in 1..Len(documents) : documents[i].emailId = e /\ documents[i].att = j
C29_FullyIngested ==
    pc = "idle" =>
       \A e \in 1..Len(mailbox) :
          e \in getProcessedEmailIds(documents) =>
             \A j \in DocumentAttachments(e) : HasRecord(e, j)

(* C30: at-most-once archiving. Over all invocations, whatever calls are         *)
(* rejected, no attachment is uploaded to the archive twice and none is appended *)
(* to the ledger twice.                                                          *)
C30_AtMostOnce ==
    /\ \A i, j \in 1..Len(archive) : archive[i] = archive[j] => i = j
    /\ \A i, j \in 1..Len(ledger) : ledger[i] = ledger[j] => i = j

(* C31: the shared client is not regressed by a concurrent caller. While the     *)
(* call that ended last is a getAuthenticated call that returned the client      *)
(* after its refresh was saved, and the client holds credentials that have not   *)
(* expired, no step of another getAuthenticated call, resumed with the row it    *)
(* had loaded, puts credentials whose expiry has passed onto the client.         *)
RefreshedClientReturned ==
    /\ ended.method = "get" /\ ended.at = "saving" /\ ended.ret = ReturnedClient
    /\ (client.expiry_date = Null \/ client.expiry_date > now)
C31_ClientNotRegressed ==
    [][RefreshedClientReturned =>
          ~ \E q \in Callers :
                /\ call[q].method = "get" /\ call[q].phase = "loading"
                /\ call'[q].phase # "loading"
                /\ client' # client
                /\ client'.expiry_date # Null /\ client'.expiry_date <= now]_vars

====
